---- MODULE Spec2Model ----
(***************************************************************************)
(* Model of the backport tool (ghpro/backport.py, ghtools/backport.py).    *)
(*                                                                         *)
(* Strategy A is ghpro's backport_pr (cherry-pick of the merge commit),    *)
(* driven by ghpro's main; Strategy B is ghtools' backport_pr (raw patch); *)
(* the reconciler is tobackport.  The git repository, the working          *)
(* directory and the hosting API are the environment: their state is part  *)
(* of the model and each git command the code issues is appended to `ops`. *)
(***************************************************************************)
EXTENDS Integers, Sequences, FiniteSets, TLC

(***************************************************************************)
(* Bounds                                                                  *)
(***************************************************************************)
\* longest queue of pull request numbers given to `apply`
MaxQueue == 2
\* number of times the operator runs the same command line
MaxRuns == 2

(***************************************************************************)
(* Data: branches, pull requests as the hosting API returns them           *)
(***************************************************************************)
Branches == {"master", "0.13.x"}

PRNums == {123, 155, 160}

NoSha == "none"

\* get_pull_request(project, num, auth=True): the PullRequest record
get_pull_request ==
  [n \in PRNums |->
     CASE n = 123 -> [number |-> 123, patch_url |-> "pull/123.patch",
                      merge_commit_sha |-> "abcdef12", title |-> "Fix A",
                      body |-> <<"c", "c", " ", "@", "a", " ", "#", "4">>]
       [] n = 155 -> [number |-> 155, patch_url |-> "pull/155.patch",
                      merge_commit_sha |-> "abcde1f0", title |-> "Fix B",
                      body |-> <<>>]
       [] n = 160 -> [number |-> 160, patch_url |-> "pull/160.patch",
                      merge_commit_sha |-> "abcdef99", title |-> "Fix C",
                      body |-> <<"#", "1">>]]

Shas == {get_pull_request[n].merge_commit_sha : n \in PRNums}

\* the characters of a commit hash (a Python str is indexable)
Chars(sha) ==
  CASE sha = "abcdef12" -> <<"a", "b", "c", "d", "e", "f", "1", "2">>
    [] sha = "abcde1f0" -> <<"a", "b", "c", "d", "e", "1", "f", "0">>
    [] sha = "abcdef99" -> <<"a", "b", "c", "d", "e", "f", "9", "9">>

\* lengths git may abbreviate a hash to in its status text (core.abbrev)
AbbrevLens == {6, 7}

(***************************************************************************)
(* Pure helpers                                                            *)
(***************************************************************************)
Min(a, b) == IF a < b THEN a ELSE b

\* Python's s[:k]
Slice(s, k) == SubSeq(s, 1, Min(k, Len(s)))

\* Python's `needle in hay` on text
Contains(needle, hay) ==
  \E i \in 1..(Len(hay) - Len(needle) + 1) : SubSeq(hay, i, i + Len(needle) - 1) = needle

Digit(d) ==
  CASE d = 0 -> "0" [] d = 1 -> "1" [] d = 2 -> "2" [] d = 3 -> "3" [] d = 4 -> "4"
    [] d = 5 -> "5" [] d = 6 -> "6" [] d = 7 -> "7" [] d = 8 -> "8" [] d = 9 -> "9"

RECURSIVE FormatInt(_)
\* "%i" % n for n >= 0
FormatInt(n) == IF n < 10 THEN <<Digit(n)>> ELSE FormatInt(n \div 10) \o <<Digit(n % 10)>>

\* Python's s.replace(old, new) for one-character old and new
Replace(s, old, new) == [i \in 1..Len(s) |-> IF s[i] = old THEN new ELSE s[i]]

\* variant: only the first replace is chained
SanitizeAtOnly(s) == Replace(s, "@", " ")

\* description.replace('@', ' ').replace('#', ' ')
SanitizeA(s) == Replace(Replace(s, "@", " "), "#", " ")

\* msg = "Backport PR #%i: %s" % (num, title) + '\n\n' + description
BackportMsg(n, title, description) ==
  <<"Backport PR #">> \o FormatInt(n) \o <<": ", title, "\n\n">> \o description

\* the message git gives the commit a cherry-pick creates: the picked commit's own
PickedMsg(sha) == <<"Merge pull request", sha>>

\* the text of `git status`
GitStatus(branch, head, conflicted, abbrevLen) ==
  <<"On branch", branch>> \o
  (IF head = NoSha
     THEN <<"nothing to commit, working tree clean">>
     ELSE <<"You are currently ", "cherry-picking", " ", "commit", " ">>
            \o Slice(Chars(head), abbrevLen) \o <<".">>
            \o (IF conflicted THEN <<"Unmerged paths:">> ELSE <<"Changes to be committed:">>))

\* 'cherry-picking' in status
InProgress(st) == Contains(<<"cherry-picking">>, st)

\* variant: one character fewer of the hash is compared (sha[:5])
ResumesPick5(st, sha) ==
  Contains(<<"cherry-picking", " ", "commit", " ">> \o Slice(Chars(sha), 5), st)

\* 'cherry-picking commit %s' % sha[:6] in status
ResumesPick(st, sha) ==
  Contains(<<"cherry-picking", " ", "commit", " ">> \o Slice(Chars(sha), 6), st)

\* variant: a fresh cherry-pick whatever the status says
CherryPickArgsFresh(st, sha) == <<"-m", "1", sha>>

\* the arguments of the cherry-pick command chosen from the status
CherryPickArgs(st, sha) == IF InProgress(st) THEN <<"--continue">> ELSE <<"-m", "1", sha>>

(***************************************************************************)
(* State                                                                   *)
(***************************************************************************)
VARIABLES
  \* the git repository
  active,          \* repo.active_branch.name
  tracking,        \* tracking[b]: branch b has an upstream tracking reference
  behind,          \* behind[b]: the upstream of b has a commit b lacks
  commits,         \* commits[b]: the messages of the commits of b, oldest first
  cpHead,          \* the commit of the cherry-pick in progress, or NoSha
  unmerged,        \* the index has unmerged paths (conflicts not yet staged)
  abbrev,          \* length of abbreviated hashes in git's output
  \* the process: sys.argv, exit status, position
  argv,            \* [branch, pulls]: opts.branch and opts.pulls
  runs,            \* how many times the command line has been run
  pc,              \* position of the running process, "idle" when there is none
  exit,            \* [kind, pr]: how the last process ended
  idx,             \* position of main's loop in opts.pulls
  called,          \* the numbers backport_pr was called with in this run
  results,         \* what those calls returned, in order
  \* backport_pr's frame
  num,             \* parameter num
  current_branch,  \* local current_branch
  status,          \* local status
  seenHead,        \* the cherry-pick that was in progress when status was read
  call,            \* the last call of backport_pr: "none", "active", "returned", "raised"
  ret,             \* what the last call of backport_pr returned, once call = "returned"
  ops,             \* the commands the current call issued, in order
  stderr,          \* what the current call wrote to sys.stderr
  \* history
  len0,            \* number of commits of the target branch when the call began
  pulled,          \* number of commits the call's pull added
  lastFail,        \* the call that last failed on a conflict, and what followed
  resuming         \* the current call repeats lastFail after the operator staged

VARIABLES
  \* the reconciler (todo)
  variant,         \* which module runs: "ghpro" or "ghtools" (they differ in backport_re)
  log,             \* the text repo.git.log returns
  issues,          \* the closed issues of the milestone
  milestone,       \* opts.milestone
  answers,         \* the milestone titles get_pull_request answered with, by number
  tpc,             \* "start", then "done" once tobackport returned
  already,         \* local already
  should,          \* local should
  todo,            \* local todo
  shouldnt,        \* local shouldnt
  ok,              \* local ok
  still_shouldnt,  \* local still_shouldnt
  out,             \* the lines printed, in order
  fetched          \* the numbers should_backport called get_pull_request with, in order

reconVars == <<variant, log, issues, milestone, answers, tpc, already, should, todo, shouldnt,
               ok, still_shouldnt, out, fetched>>

VARIABLES
  \* Strategy B: the working directory and backport_pr's frame
  files,           \* files[f]: the content of patch file f, NoFile when there is none
  patch,           \* local patch
  file0            \* the content of the call's patch file when the call began

patchVars == <<files, patch, file0>>

\* the commit description on its own: a pull request body and what is made of it
VARIABLES
  body,           \* pr['body'], a string
  desc,           \* description after the replace calls
  dpc             \* "idle", "start", or the strategy that made desc

msgVars == <<body, desc, dpc>>

\* the front-end on its own: main of either module, run with `apply`
VARIABLES
  frontend,       \* which module's main runs: "ghpro" or "ghtools"
  opts,           \* the parsed command line
  remotes,        \* the names of the repository's remotes
  mpc,            \* "idle", "parse", "loop", then "done", "failed" or "raised"
  resolved,       \* main's locals branch and project
  calls           \* the arguments backport_pr was called with, by parameter, in order

mainVars == <<frontend, opts, remotes, mpc, resolved, calls>>

repoVars == <<active, tracking, behind, commits, cpHead, unmerged, abbrev>>
procVars == <<argv, runs, pc, exit, idx, called, results>>
frameVars == <<num, current_branch, status, seenHead, call, ret, ops, stderr>>
histVars == <<len0, pulled, lastFail, resuming>>

\* parameter branch of backport_pr: main passes opts.branch
branch == argv.branch

\* locals sha, title, description of backport_pr
sha == get_pull_request[num].merge_commit_sha
title == get_pull_request[num].title
description == SanitizeA(get_pull_request[num].body)

Git(cmd, args) == [cmd |-> cmd, args |-> args]

NoFail == [num |-> 0, branch |-> "", staged |-> FALSE]

Running == [kind |-> "running", pr |-> 0]

\* the queues of pull request numbers a command line may carry
RECURSIVE SeqsUpTo(_, _)
SeqsUpTo(S, n) ==
  IF n = 0 THEN {<<>>}
  ELSE LET shorter == SeqsUpTo(S, n - 1)
       IN  shorter \cup {Append(q, x) : q \in {r \in shorter : Len(r) = n - 1}, x \in S}

Queues ==
  {q \in SeqsUpTo(PRNums, MaxQueue) :
     Len(q) >= 1 /\ \A i, j \in 1..Len(q) : i # j => q[i] # q[j]}

(***************************************************************************)
(* Initial state: a repository and a command line `apply BRANCH PR [PR..]` *)
(***************************************************************************)
ApplyInit ==
  /\ active \in Branches
  /\ tracking \in [Branches -> BOOLEAN]
  /\ behind \in {f \in [Branches -> BOOLEAN] : \A b \in Branches : f[b] => tracking[b]}
  /\ commits = [b \in Branches |-> << <<"base">> >>]
  /\ cpHead \in Shas \cup {NoSha}
  /\ unmerged \in {u \in BOOLEAN : u => cpHead # NoSha}
  /\ abbrev \in AbbrevLens
  /\ argv \in [branch : Branches, pulls : Queues]
  /\ runs = 0
  /\ pc = "idle"
  /\ exit = [kind |-> "none", pr |-> 0]
  /\ idx = 1
  /\ called = <<>>
  /\ results = <<>>
  /\ num = argv.pulls[1]
  /\ current_branch = active
  /\ status = <<>>
  /\ seenHead = NoSha
  /\ call = "none"
  /\ ret = 0
  /\ ops = <<>>
  /\ stderr = <<>>
  /\ len0 = 1
  /\ pulled = 0
  /\ lastFail = NoFail
  /\ resuming = FALSE

(***************************************************************************)
(* The operator                                                            *)
(***************************************************************************)
\* the operator runs the command line (again): main() up to its loop
Run ==
  /\ pc = "idle"
  /\ runs < MaxRuns
  /\ runs' = runs + 1
  /\ pc' = "main_loop"
  /\ exit' = Running
  /\ idx' = 1
  /\ called' = <<>>
  /\ results' = <<>>
  /\ UNCHANGED <<repoVars, argv, frameVars, histVars>>
  /\ UNCHANGED <<reconVars, patchVars, msgVars, mainVars>>

\* "Resolve conflicts (add, not commit)": the operator stages the resolutions
OperatorStage ==
  /\ pc = "idle"
  /\ cpHead # NoSha
  /\ unmerged
  /\ unmerged' = FALSE
  /\ lastFail' = IF lastFail.num # 0 THEN [lastFail EXCEPT !.staged = TRUE] ELSE lastFail
  /\ UNCHANGED <<active, tracking, behind, commits, cpHead, abbrev, procVars, frameVars,
                 len0, pulled, resuming>>
  /\ UNCHANGED <<reconVars, patchVars, msgVars, mainVars>>

(***************************************************************************)
(* ghpro main: the apply loop                                              *)
(***************************************************************************)
\* an exception nothing catches ends the process with a traceback
Raise ==
  /\ call' = "raised"
  /\ ret' = ret
  /\ pc' = "idle"
  /\ exit' = [kind |-> "traceback", pr |-> 0]

\* for pr in opts.pulls: ... backport_pr(path, branch, pr, project)
main_call ==
  /\ pc = "main_loop"
  /\ idx <= Len(argv.pulls)
  /\ num' = argv.pulls[idx]
  /\ called' = Append(called, argv.pulls[idx])
  /\ pc' = "bp_begin"
  /\ call' = "active"
  /\ ret' = 0
  /\ ops' = <<>>
  /\ stderr' = <<>>
  /\ status' = <<>>
  /\ seenHead' = NoSha
  /\ len0' = Len(commits[branch])
  /\ pulled' = 0
  /\ resuming' = /\ lastFail = [num |-> argv.pulls[idx], branch |-> branch, staged |-> TRUE]
                 /\ cpHead = get_pull_request[argv.pulls[idx]].merge_commit_sha
                 /\ ~unmerged
                 /\ active = branch
  /\ lastFail' = NoFail
  /\ UNCHANGED <<repoVars, argv, runs, exit, idx, results, current_branch>>
  /\ UNCHANGED <<reconVars, patchVars, msgVars, mainVars>>

\* the loop is exhausted: main returns, the process exits with 0
main_done ==
  /\ pc = "main_loop"
  /\ idx > Len(argv.pulls)
  /\ pc' = "idle"
  /\ exit' = [kind |-> "ok", pr |-> 0]
  /\ UNCHANGED <<repoVars, argv, runs, idx, called, results, frameVars, histVars>>
  /\ UNCHANGED <<reconVars, patchVars, msgVars, mainVars>>

\* variant: a failed pull request is skipped and the loop goes on
main_failed_continue ==
  /\ pc = "main_check"
  /\ ret # 0
  /\ idx' = idx + 1
  /\ pc' = "main_loop"
  /\ UNCHANGED <<repoVars, argv, runs, exit, called, results, frameVars, histVars>>
  /\ UNCHANGED <<reconVars, patchVars, msgVars, mainVars>>

\* if backport_pr(...): sys.exit("Backporting PR#{pr} onto {branch} failed")
main_failed ==
  /\ pc = "main_check"
  /\ ret # 0
  /\ pc' = "idle"
  /\ exit' = [kind |-> "failed", pr |-> argv.pulls[idx]]
  /\ UNCHANGED <<repoVars, argv, runs, idx, called, results, frameVars, histVars>>
  /\ UNCHANGED <<reconVars, patchVars, msgVars, mainVars>>

\* backport_pr returned 0: next pull request of the queue
main_next ==
  /\ pc = "main_check"
  /\ ret = 0
  /\ idx' = idx + 1
  /\ pc' = "main_loop"
  /\ UNCHANGED <<repoVars, argv, runs, exit, called, results, frameVars, histVars>>
  /\ UNCHANGED <<reconVars, patchVars, msgVars, mainVars>>

(***************************************************************************)
(* Strategy A: ghpro backport_pr(path, branch, num, project)               *)
(***************************************************************************)
\* return <value>: back in main's `if backport_pr(...)`
Return(value) ==
  /\ call' = "returned"
  /\ ret' = value
  /\ results' = Append(results, value)
  /\ pc' = "main_check"
  /\ exit' = exit

\* current_branch = repo.active_branch.name; the target is active already
bp_begin_same ==
  /\ pc = "bp_begin"
  /\ branch = active
  /\ current_branch' = active
  /\ pc' = "bp_pull"
  /\ UNCHANGED <<repoVars, argv, runs, exit, idx, called, results, num, status, seenHead, call, ret, ops, stderr,
                 histVars>>
  /\ UNCHANGED <<reconVars, patchVars, msgVars, mainVars>>

\* git checkout succeeds unless the index has unmerged paths; with staged
\* changes it succeeds when the other branch does not touch them
CheckoutOutcomes == {b \in BOOLEAN : (unmerged => ~b) /\ (cpHead = NoSha => b)}

\* if branch != current_branch: repo.git.checkout(branch)
bp_begin_checkout ==
  /\ pc = "bp_begin"
  /\ branch # active
  /\ current_branch' = active
  /\ ops' = Append(ops, Git("checkout", <<branch>>))
  /\ \E succeeds \in CheckoutOutcomes :
       IF succeeds
         THEN /\ active' = branch
              /\ pc' = "bp_pull"
              /\ UNCHANGED <<exit, call, ret>>
         ELSE /\ Raise
              /\ UNCHANGED active
  /\ UNCHANGED <<tracking, behind, commits, cpHead, unmerged, abbrev, argv, runs, idx, called, results,
                 num, status, seenHead, stderr, histVars>>
  /\ UNCHANGED <<reconVars, patchVars, msgVars, mainVars>>

\* variant: every branch is taken to have an upstream
UpstreamAny(b) == <<"origin/", b>>

\* repo.git.for_each_ref('--format=%(upstream:short)', 'refs/heads/%s' % branch)
Upstream(b) == IF tracking[b] THEN <<"origin/", b>> ELSE <<>>

\* git pull (fetch, then merge) refuses to run while CHERRY_PICK_HEAD exists
PullFails == cpHead # NoSha

\* if repo.git.for_each_ref(...): repo.git.pull()
bp_pull ==
  /\ pc = "bp_pull"
  /\ Upstream(branch) # <<>>
  /\ ops' = ops \o <<Git("for_each_ref", <<branch>>), Git("pull", <<>>)>>
  /\ IF PullFails
       THEN /\ Raise
            /\ UNCHANGED <<commits, behind, pulled>>
       ELSE /\ commits' = IF behind[active]
                            THEN [commits EXCEPT ![active] = Append(@, <<"upstream">>)]
                            ELSE commits
            /\ pulled' = IF behind[active] THEN 1 ELSE 0
            /\ behind' = [behind EXCEPT ![active] = FALSE]
            /\ pc' = "bp_inspect"
            /\ UNCHANGED <<exit, call, ret>>
  /\ UNCHANGED <<active, tracking, cpHead, unmerged, abbrev, argv, runs, idx, called, results,
                 num, current_branch, status, seenHead, stderr, len0, lastFail, resuming>>
  /\ UNCHANGED <<reconVars, patchVars, msgVars, mainVars>>

\* else: print("Branch %s not tracking upstream." % branch, file=sys.stderr)
bp_nopull ==
  /\ pc = "bp_pull"
  /\ Upstream(branch) = <<>>
  /\ ops' = Append(ops, Git("for_each_ref", <<branch>>))
  /\ stderr' = Append(stderr, "not tracking upstream")
  /\ pc' = "bp_inspect"
  /\ UNCHANGED <<repoVars, argv, runs, exit, idx, called, results, num, current_branch, status, seenHead, call, ret,
                 histVars>>
  /\ UNCHANGED <<reconVars, patchVars, msgVars, mainVars>>

\* the status shows a cherry-pick in progress that is not the one of sha
Mismatch(st, h) == InProgress(st) /\ ~ResumesPick(st, h)

\* pr = get_pull_request(...); status = repo.git.status();
\* "I do not appear to be resuming the cherry-pick of %s": return 1
bp_inspect_mismatch ==
  /\ pc = "bp_inspect"
  /\ LET st == GitStatus(active, cpHead, unmerged, abbrev)
     IN  /\ Mismatch(st, sha)
         /\ status' = st
         /\ seenHead' = cpHead
         /\ ops' = ops \o <<Git("get_pull_request", <<>>), Git("status", <<>>)>>
         /\ stderr' = stderr \o <<"I do not appear to be resuming the cherry-pick">>
         /\ Return(1)
  /\ UNCHANGED <<repoVars, argv, runs, idx, called, num, current_branch, histVars>>
  /\ UNCHANGED <<reconVars, patchVars, msgVars, mainVars>>

\* pr = get_pull_request(...); status = repo.git.status(); args = ...
bp_inspect ==
  /\ pc = "bp_inspect"
  /\ LET st == GitStatus(active, cpHead, unmerged, abbrev)
     IN  /\ ~Mismatch(st, sha)
         /\ status' = st
         /\ seenHead' = cpHead
         /\ ops' = ops \o <<Git("get_pull_request", <<>>), Git("status", <<>>)>>
         /\ pc' = "bp_cherry_pick"
  /\ UNCHANGED <<repoVars, argv, runs, exit, idx, called, results, num, current_branch, call, ret, stderr,
                 histVars>>
  /\ UNCHANGED <<reconVars, patchVars, msgVars, mainVars>>

\* what `git cherry-pick <args>` can do in the repository's state:
\* "picked" (a commit is made), "conflict" (stops with unmerged paths, the
\* pick in progress), "refused" (nothing changes)
CherryPickOutcomes(args) ==
  IF args = <<"--continue">>
    THEN IF cpHead # NoSha /\ ~unmerged THEN {"picked"} ELSE {"refused"}
    ELSE IF cpHead = NoSha THEN {"picked", "conflict"} ELSE {"refused"}

\* the commit a successful cherry-pick makes
Picked(args) == IF args = <<"--continue">> THEN cpHead ELSE args[3]

\* try: repo.git.cherry_pick(*args)
bp_cherry_pick ==
  /\ pc = "bp_cherry_pick"
  /\ LET args == CherryPickArgs(status, sha)
     IN  /\ "picked" \in CherryPickOutcomes(args)
         /\ ops' = Append(ops, Git("cherry_pick", args))
         /\ commits' = [commits EXCEPT ![active] = Append(@, PickedMsg(Picked(args)))]
         /\ cpHead' = NoSha
         /\ unmerged' = FALSE
         /\ pc' = "bp_amend"
  /\ UNCHANGED <<active, tracking, behind, abbrev, argv, runs, exit, idx, called, results, num,
                 current_branch, status, seenHead, call, ret, stderr, histVars>>
  /\ UNCHANGED <<reconVars, patchVars, msgVars, mainVars>>

\* variant: the failure handler checks the original branch back out
bp_cherry_pick_failed_restore ==
  /\ pc = "bp_cherry_pick"
  /\ LET args == CherryPickArgs(status, sha)
     IN  \E outcome \in CherryPickOutcomes(args) \ {"picked"} :
           /\ ops' = ops \o <<Git("cherry_pick", args), Git("status", <<>>),
                               Git("checkout", <<current_branch>>)>>
           /\ IF outcome = "conflict"
                THEN cpHead' = NoSha /\ unmerged' = FALSE
                ELSE UNCHANGED <<cpHead, unmerged>>
           /\ active' = current_branch
           /\ stderr' = stderr \o <<"Patch did not apply">>
           /\ lastFail' = NoFail
           /\ Return(1)
  /\ UNCHANGED <<tracking, behind, commits, abbrev, argv, runs, idx, called, num,
                 current_branch, status, seenHead, len0, pulled, resuming>>
  /\ UNCHANGED <<reconVars, patchVars, msgVars, mainVars>>

\* except Exception as e: print e.stderr, repo.git.status(), the command; return 1
bp_cherry_pick_failed ==
  /\ pc = "bp_cherry_pick"
  /\ LET args == CherryPickArgs(status, sha)
     IN  \E outcome \in CherryPickOutcomes(args) \ {"picked"} :
           /\ ops' = ops \o <<Git("cherry_pick", args), Git("status", <<>>)>>
           /\ IF outcome = "conflict"
                THEN cpHead' = args[3] /\ unmerged' = TRUE
                ELSE UNCHANGED <<cpHead, unmerged>>
           /\ stderr' = stderr \o <<"Patch did not apply">>
           /\ lastFail' = IF outcome = "conflict" \/ cpHead # NoSha
                            THEN [num |-> num, branch |-> branch, staged |-> FALSE]
                            ELSE NoFail
           /\ Return(1)
  /\ UNCHANGED <<active, tracking, behind, commits, abbrev, argv, runs, idx, called, num,
                 current_branch, status, seenHead, len0, pulled, resuming>>
  /\ UNCHANGED <<reconVars, patchVars, msgVars, mainVars>>

\* variant: commit without --amend adds a commit
AmendAppends(history, msg) == Append(history, msg)

\* repo.git.commit('--amend', '-m', msg): a new message for the branch's last commit
Amend(history, msg) == SubSeq(history, 1, Len(history) - 1) \o <<msg>>

\* msg = ...; repo.git.commit('--amend', '-m', msg); print(...)
bp_amend ==
  /\ pc = "bp_amend"
  /\ ops' = Append(ops, Git("commit", <<"--amend", "-m">>))
  /\ commits' = [commits EXCEPT ![active] = Amend(@, BackportMsg(num, title, description))]
  /\ pc' = "bp_restore"
  /\ UNCHANGED <<active, tracking, behind, cpHead, unmerged, abbrev, argv, runs, exit, idx, called, results,
                 num, current_branch, status, seenHead, call, ret, stderr, histVars>>
  /\ UNCHANGED <<reconVars, patchVars, msgVars, mainVars>>

\* variant: the original branch is not checked back out
bp_restore_stay ==
  /\ pc = "bp_restore"
  /\ Return(0)
  /\ UNCHANGED <<repoVars, argv, runs, idx, called, num, current_branch, status, seenHead,
                 ops, stderr, histVars>>
  /\ UNCHANGED <<reconVars, patchVars, msgVars, mainVars>>

\* if branch != current_branch: repo.git.checkout(current_branch); return 0
bp_restore ==
  /\ pc = "bp_restore"
  /\ IF branch # current_branch
       THEN /\ ops' = Append(ops, Git("checkout", <<current_branch>>))
            /\ active' = current_branch
       ELSE UNCHANGED <<ops, active>>
  /\ Return(0)
  /\ UNCHANGED <<tracking, behind, commits, cpHead, unmerged, abbrev, argv, runs, idx, called,
                 num, current_branch, status, seenHead, stderr, histVars>>
  /\ UNCHANGED <<reconVars, patchVars, msgVars, mainVars>>

(***************************************************************************)
(* The reconciler: already_backported, should_backport, tobackport         *)
(***************************************************************************)
\* longest commit log, in lines
MaxLogLines == 2
\* longest list of closed issues in the milestone
MaxIssues == 2

\* the numbers of the issues and pull requests of the project
IssueNums == {5, 55, 60}

\* "<hash> Merge pull request #55 from ..."
MergeLine == <<"a", " ", "Merge", " ", "#", "5", "5", " ", "x">>

\* a line without keyword: "<hash> fix #60"
PlainLine == <<"7", " ", "f", "i", "x", " ", "#", "6", "0">>

\* one-line log entries; a keyword stands for its characters
LogLines ==
  { MergeLine,
    <<"b", " ", "Backport", " ", "#", "5", ":", " ", "x">>,
    PlainLine,
    <<"d", " ", "backport", " ", "#", "5", "5">>,
    <<"e", " ", "merge", " ", "#", "5", "5", ".">>,
    <<"f", " ", "Merge", " ", "x">> }

RECURSIVE Join(_)
\* the lines of a log joined by newlines, as repo.git.log returns them
Join(ls) ==
  IF ls = <<>> THEN <<>>
  ELSE IF Len(ls) = 1 THEN ls[1]
  ELSE ls[1] \o <<"\n">> \o Join(Tail(ls))

Logs == {Join(ls) : ls \in SeqsUpTo(LogLines, MaxLogLines)}

NoMilestone == <<>>

\* milestone titles
Titles == { <<"1", ".", "9">>, <<"1", ".", "1", "0">>, <<"2", ".", "0">> }

IsDigit(c) == c \in {"0", "1", "2", "3", "4", "5", "6", "7", "8", "9"}

DigitVal(c) == CHOOSE d \in 0..9 : Digit(d) = c

RECURSIVE ParseInt(_)
\* int(num)
ParseInt(ds) ==
  IF ds = <<>> THEN 0 ELSE 10 * ParseInt(SubSeq(ds, 1, Len(ds) - 1)) + DigitVal(ds[Len(ds)])

\* (?:[Bb]ackport|[Mm]erge)
IsKeyword(c) == c \in {"Backport", "backport", "Merge", "merge"}

RECURSIVE DigitRun(_, _)
\* the length of the run of digits of text that starts at p
DigitRun(text, p) ==
  IF p > Len(text) \/ ~IsDigit(text[p]) THEN 0 ELSE 1 + DigitRun(text, p + 1)

\* variant: a lazy capture (\d+?), the shortest first
CaptureLenLazy(text, p, flavour) ==
  LET run == DigitRun(text, p)
      fits == {l \in 1..run : p + l <= Len(text) /\ text[p + l] # "."}
  IN  IF flavour = "ghtools" THEN Min(run, 1)
      ELSE IF fits = {} THEN 0
      ELSE CHOOSE l \in fits : \A m \in fits : l <= m

\* (\d+)(?:[^.]) in ghpro, (\d+) in ghtools: the number of digits captured at
\* p, the longest first, 0 when the group cannot match there
CaptureLen(text, p, flavour) ==
  LET run == DigitRun(text, p)
      fits == {l \in 1..run : p + l <= Len(text) /\ text[p + l] # "."}
  IN  IF flavour = "ghtools" THEN run
      ELSE IF fits = {} THEN 0
      ELSE CHOOSE l \in fits : \A m \in fits : m <= l

\* .*? then the capture: the positions after the keyword at s, on its line,
\* where the capture can match
CapturePoints(text, s, flavour) ==
  {p \in (s + 1)..Len(text) :
     /\ \A q \in (s + 1)..(p - 1) : text[q] # "\n"
     /\ CaptureLen(text, p, flavour) > 0}

RECURSIVE FindAll(_, _, _)
\* backport_re.findall(lines), scanning from pos
FindAll(text, pos, flavour) ==
  IF pos > Len(text) THEN <<>>
  ELSE IF IsKeyword(text[pos]) /\ CapturePoints(text, pos, flavour) # {}
    THEN LET points == CapturePoints(text, pos, flavour)
             p == CHOOSE x \in points : \A y \in points : x <= y
             l == CaptureLen(text, p, flavour)
             next == IF flavour = "ghtools" THEN p + l ELSE p + l + 1
         IN  <<SubSeq(text, p, p + l - 1)>> \o FindAll(text, next, flavour)
    ELSE FindAll(text, pos + 1, flavour)

\* set(int(num) for num in backport_re.findall(lines))
already_backported(text, flavour) ==
  LET found == FindAll(text, 1, flavour)
  IN  {ParseInt(found[i]) : i \in 1..Len(found)}

\* is_pull_request(issue): the issue record has a pull_request field
is_pull_request(issue) == issue.pull_request

\* the closed issues of the milestone, as get_issues_list returns them
IssueLists ==
  {l \in SeqsUpTo([number : IssueNums, pull_request : BOOLEAN, merged : BOOLEAN], MaxIssues) :
     /\ \A i \in 1..Len(l) : l[i].merged => l[i].pull_request
     /\ \A i, j \in 1..Len(l) : i < j => l[i].number < l[j].number}

\* should_backport = set(), nothing printed, nothing fetched
LoopStart == [should_backport |-> {}, printed |-> <<>>, fetched |-> <<>>]

\* print ("Marked PR closed without merge: %i" % pr['number'])
ClosedWithoutMerge(n) == <<"Marked PR closed without merge: ">> \o FormatInt(n)

RECURSIVE should_backport_loop_break(_, _)
\* variant: the loop ends at the first pull request closed without merge
should_backport_loop_break(list, acc) ==
  IF list = <<>> THEN acc
  ELSE LET issue == Head(list)
           got == [acc EXCEPT !.fetched = Append(@, issue.number)]
       IN  IF ~is_pull_request(issue) THEN should_backport_loop_break(Tail(list), acc)
           ELSE IF ~issue.merged
             THEN [got EXCEPT !.printed = Append(@, ClosedWithoutMerge(issue.number))]
             ELSE should_backport_loop_break(Tail(list),
                    [got EXCEPT !.should_backport = @ \cup {issue.number}])

RECURSIVE should_backport_loop(_, _)
\* for issue in issues: skip what is no pull request; fetch the pull request;
\* warn and skip if it is not merged; else add its number
should_backport_loop(list, acc) ==
  IF list = <<>> THEN acc
  ELSE LET issue == Head(list)
           got == [acc EXCEPT !.fetched = Append(@, issue.number)]
       IN  IF ~is_pull_request(issue) THEN should_backport_loop(Tail(list), acc)
           ELSE IF ~issue.merged
             THEN should_backport_loop(Tail(list),
                    [got EXCEPT !.printed = Append(@, ClosedWithoutMerge(issue.number))])
             ELSE should_backport_loop(Tail(list),
                    [got EXCEPT !.should_backport = @ \cup {issue.number}])

\* should_backport(project, milestone): the set the loop leaves
should_backport(list) == should_backport_loop(list, LoopStart).should_backport

\* what should_backport prints
should_backport_warnings(list) == should_backport_loop(list, LoopStart).printed

RECURSIVE Components(_)
\* LooseVersion's components of a dotted numeric title
Components(t) ==
  IF t = <<>> THEN <<>>
  ELSE LET run == DigitRun(t, 1)
       IN  IF run = 0 THEN Components(Tail(t))
           ELSE <<ParseInt(SubSeq(t, 1, run))>> \o Components(SubSeq(t, run + 1, Len(t)))

RECURSIVE Less(_, _)
\* Python's list comparison a < b
Less(a, b) ==
  IF b = <<>> THEN FALSE
  ELSE IF a = <<>> THEN TRUE
  ELSE IF a[1] # b[1] THEN a[1] < b[1]
  ELSE Less(Tail(a), Tail(b))

\* variant: the titles are compared as text, a < b on str
VersionLessText(a, b) ==
  LET Codes(t) == [i \in 1..Len(t) |-> IF t[i] = "." THEN 46 ELSE 48 + DigitVal(t[i])]
  IN  Less(Codes(a), Codes(b))

\* V(a) < V(b)
VersionLess(a, b) == Less(Components(a), Components(b))

RECURSIVE sorted_reverse(_)
\* variant: descending order
sorted_reverse(S) ==
  IF S = {} THEN <<>>
  ELSE LET most == CHOOSE x \in S : \A y \in S : x >= y
       IN  <<most>> \o sorted_reverse(S \ {most})

RECURSIVE sorted(_)
\* sorted(S) of a set of integers
sorted(S) ==
  IF S = {} THEN <<>>
  ELSE LET least == CHOOSE x \in S : \A y \in S : x <= y
       IN  <<least>> \o sorted(S \ {least})

\* variant: forgets to take the difference
TodoAll(sh, al) == sh

\* todo = should.difference(already)
Todo(sh, al) == sh \ al

\* variant: <= instead of <
AcceptsOrEqual(pr_milestone, target) ==
  pr_milestone # NoMilestone /\ ~VersionLess(target, pr_milestone)

\* pr['milestone'] and V(pr['milestone']['title']) < V(milestone)
Accepts(pr_milestone, target) ==
  pr_milestone # NoMilestone /\ VersionLess(pr_milestone, target)

\* variant: the number is appended whether or not it was added to ok
StillShouldntAll(snt, ms, target) == sorted(snt)

\* still_shouldnt: the numbers of sorted(shouldnt) that took the else branch
StillShouldnt(snt, ms, target) == sorted({n \in snt : ~Accepts(ms[n], target)})

\* for pr in ...: print(pr)
PrintAll(nums) == [i \in 1..Len(nums) |-> FormatInt(nums[i])]

Section(header, nums) == <<header>> \o PrintAll(nums)

SuspectHeader == <<"The following PRs have been backported, but perhaps shouldn't be:">>
OkHeader == <<"The following PRs have been backported">>
TodoHeader == <<"The following PRs should be backported:">>
UpToDate == <<"Everything appears up-to-date">>

\* no reconciliation is run
ReconIdle ==
  /\ variant = "ghpro"
  /\ log = <<>>
  /\ issues = <<>>
  /\ milestone = <<"2", ".", "0">>
  /\ answers = <<>>
  /\ tpc = "off"
  /\ already = {}
  /\ should = {}
  /\ todo = {}
  /\ shouldnt = {}
  /\ ok = {}
  /\ still_shouldnt = <<>>
  /\ out = <<>>
  /\ fetched = <<>>

ReconInit ==
  /\ variant \in {"ghpro", "ghtools"}
  /\ log \in Logs
  /\ issues \in IssueLists
  /\ milestone \in Titles \ {<<"1", ".", "9">>}
  /\ answers = <<>>
  /\ tpc = "start"
  /\ already = {}
  /\ should = {}
  /\ todo = {}
  /\ shouldnt = {}
  /\ ok = {}
  /\ still_shouldnt = <<>>
  /\ out = <<>>
  /\ fetched = <<>>

\* tobackport(project, branch, milestone, since)
tobackport ==
  /\ tpc = "start"
  /\ \E al \in {already_backported(log, variant)},
          run \in {should_backport_loop(issues, LoopStart)} :
       \E sh \in {run.should_backport},
          ms \in [al \ run.should_backport -> Titles \cup {NoMilestone}] :
         LET snt == al \ sh
             accepted == {n \in snt : Accepts(ms[n], milestone)}
             still == StillShouldnt(snt, ms, milestone)
             ok1 == (al \cap sh) \cup accepted
             td == Todo(sh, al)
         IN  /\ already' = al
             /\ should' = sh
             /\ shouldnt' = snt
             /\ answers' = ms
             /\ todo' = td
             /\ ok' = ok1
             /\ still_shouldnt' = still
             /\ fetched' = run.fetched
             /\ out' = run.printed
                         \o (IF snt # {} /\ still # <<>>
                               THEN Section(SuspectHeader, still) ELSE <<>>)
                         \o (IF ok1 # {} THEN Section(OkHeader, sorted(ok1)) ELSE <<>>)
                         \o (IF td # {} THEN Section(TodoHeader, sorted(td))
                                        ELSE <<UpToDate>>)
  /\ tpc' = "done"
  /\ UNCHANGED <<variant, log, issues, milestone>>
  /\ UNCHANGED <<repoVars, procVars, frameVars, histVars, patchVars, msgVars, mainVars>>

(***************************************************************************)
(* Strategy B: ghtools backport_pr(path, branch, num, project)             *)
(***************************************************************************)
NoFile == "no file"

\* what the operator's editor leaves in a patch file
Edited == "edited"

\* fname = "PR%i.patch" % num
Fname(n) == <<"PR">> \o FormatInt(n) \o <<".patch">>

PatchNames == {Fname(n) : n \in PRNums}

\* r.content of requests.get(patch_url)
Download(url) == url

\* get_pull_request_files(project, num, auth=True): the ChangedFile records
get_pull_request_files ==
  [n \in PRNums |->
     CASE n = 123 -> <<[filename |-> "a.py"], [filename |-> "b.py"]>>
       [] n = 155 -> <<[filename |-> "a.py"]>>
       [] n = 160 -> <<[filename |-> "c.py"]>>]

\* filenames = [ f['filename'] for f in files ]
Filenames(n) ==
  [i \in 1..Len(get_pull_request_files[n]) |-> get_pull_request_files[n][i].filename]

\* description.replace('@', '_')
SanitizeB(s) == Replace(s, "@", "_")

\* no patch is being applied
PatchIdle ==
  /\ files = [f \in PatchNames |-> NoFile]
  /\ patch = NoFile
  /\ file0 = NoFile

\* return <value>: back at the caller
ReturnB(value) ==
  /\ call' = "returned"
  /\ ret' = value
  /\ results' = Append(results, value)
  /\ pc' = "idle"
  /\ exit' = exit

\* backport_pr(path, branch, num, project) is called
bb_call ==
  /\ pc = "idle"
  /\ runs < MaxRuns
  /\ \E n \in PRNums :
       /\ num' = n
       /\ called' = Append(called, n)
       /\ file0' = files[Fname(n)]
  /\ runs' = runs + 1
  /\ pc' = "bb_begin"
  /\ call' = "active"
  /\ ret' = 0
  /\ ops' = <<>>
  /\ len0' = Len(commits[branch])
  /\ pulled' = 0
  /\ patch' = NoFile
  /\ UNCHANGED <<repoVars, argv, exit, idx, results, current_branch, status, seenHead, stderr,
                 lastFail, resuming, files, reconVars, msgVars, mainVars>>

\* the operator edits PR<n>.patch until it applies, or removes it
OperatorEdit ==
  /\ pc = "idle"
  /\ \E f \in PatchNames, content \in {Edited, NoFile} :
       /\ files[f] # content
       /\ files' = [files EXCEPT ![f] = content]
  /\ UNCHANGED <<repoVars, procVars, frameVars, histVars, patch, file0, reconVars, msgVars, mainVars>>

\* current_branch = repo.active_branch.name; the target is active already
bb_begin_same ==
  /\ pc = "bb_begin"
  /\ branch = active
  /\ current_branch' = active
  /\ pc' = "bb_pull"
  /\ UNCHANGED <<repoVars, argv, runs, exit, idx, called, results, num, status, seenHead, call,
                 ret, ops, stderr, histVars, patchVars, reconVars, msgVars, mainVars>>

\* if branch != current_branch: repo.git.checkout(branch)
bb_begin_checkout ==
  /\ pc = "bb_begin"
  /\ branch # active
  /\ current_branch' = active
  /\ ops' = Append(ops, Git("checkout", <<branch>>))
  /\ \E succeeds \in CheckoutOutcomes :
       IF succeeds
         THEN /\ active' = branch
              /\ pc' = "bb_pull"
              /\ UNCHANGED <<exit, call, ret>>
         ELSE /\ Raise
              /\ UNCHANGED active
  /\ UNCHANGED <<tracking, behind, commits, cpHead, unmerged, abbrev, argv, runs, idx, called,
                 results, num, status, seenHead, stderr, histVars, patchVars, reconVars, msgVars, mainVars>>

\* repo.git.pull(): git refuses without an upstream or during a cherry-pick
bb_pull ==
  /\ pc = "bb_pull"
  /\ ops' = Append(ops, Git("pull", <<>>))
  /\ IF PullFails \/ ~tracking[active]
       THEN /\ Raise
            /\ UNCHANGED <<commits, behind, pulled>>
       ELSE /\ commits' = IF behind[active]
                            THEN [commits EXCEPT ![active] = Append(@, <<"upstream">>)]
                            ELSE commits
            /\ pulled' = IF behind[active] THEN 1 ELSE 0
            /\ behind' = [behind EXCEPT ![active] = FALSE]
            /\ pc' = "bb_patch"
            /\ UNCHANGED <<exit, call, ret>>
  /\ UNCHANGED <<active, tracking, cpHead, unmerged, abbrev, argv, runs, idx, called, results,
                 num, current_branch, status, seenHead, stderr, len0, lastFail, resuming,
                 patchVars, reconVars, msgVars, mainVars>>

\* variant: the file is never found
ExistsNever(f) == FALSE

\* os.path.exists(fname)
Exists(f) == files[f] # NoFile

\* pr = ..., files = ...; if os.path.exists(fname): patch = f.read()
bb_read_patch ==
  /\ pc = "bb_patch"
  /\ Exists(Fname(num))
  /\ ops' = ops \o <<Git("get_pull_request", <<>>), Git("get_pull_request_files", <<>>),
                     Git("read", Fname(num))>>
  /\ patch' = files[Fname(num)]
  /\ pc' = "bb_check"
  /\ UNCHANGED <<repoVars, argv, runs, exit, idx, called, results, num, current_branch, status,
                 seenHead, call, ret, stderr, histVars, files, file0, reconVars, msgVars, mainVars>>

\* else: r = requests.get(patch_url); r.raise_for_status(); patch = r.content
bb_download ==
  /\ pc = "bb_patch"
  /\ ~Exists(Fname(num))
  /\ ops' = ops \o <<Git("get_pull_request", <<>>), Git("get_pull_request_files", <<>>),
                     Git("requests.get", <<get_pull_request[num].patch_url>>)>>
  /\ \E http_ok \in BOOLEAN :
       IF http_ok
         THEN /\ patch' = Download(get_pull_request[num].patch_url)
              /\ pc' = "bb_check"
              /\ UNCHANGED <<exit, call, ret>>
         ELSE /\ Raise
              /\ UNCHANGED patch
  /\ UNCHANGED <<repoVars, argv, runs, idx, called, results, num, current_branch, status,
                 seenHead, stderr, histVars, files, file0, reconVars, msgVars, mainVars>>

\* if not os.path.exists(fname): with open(fname, 'wb') as f: f.write(patch)
Save(f, content) == IF Exists(f) THEN files ELSE [files EXCEPT ![f] = content]

\* Popen([...], stdin=PIPE); communicate(data): a command fed data, and its return code
Popen(cmd, args, data, rc) == [cmd |-> cmd, args |-> args, stdin |-> data, returncode |-> rc]

\* git apply --check failed: save the patch, return 1
bb_check_failed ==
  /\ pc = "bb_check"
  /\ ops' = ops \o <<Popen("apply", <<"--check", "--verbose">>, patch, 1)>>
                \o (IF Exists(Fname(num)) THEN <<>> ELSE <<Git("write", Fname(num))>>)
  /\ files' = Save(Fname(num), patch)
  /\ ReturnB(1)
  /\ UNCHANGED <<repoVars, argv, runs, idx, called, num, current_branch, status, seenHead,
                 stderr, histVars, patch, file0, reconVars, msgVars, mainVars>>

\* variant: the patch is applied and committed without the dry run
bb_apply_unchecked ==
  /\ pc = "bb_check"
  /\ ops' = ops \o <<Popen("apply", <<>>, patch, 0),
                     Git("add", Filenames(num)), Git("commit", <<"-m">>)>>
  /\ commits' = [commits EXCEPT ![active] =
                   Append(@, BackportMsg(num, title, SanitizeB(get_pull_request[num].body)))]
  /\ pc' = "bb_restore"
  /\ UNCHANGED <<active, tracking, behind, cpHead, unmerged, abbrev, argv, runs, exit, idx,
                 called, results, num, current_branch, status, seenHead, call, ret, stderr,
                 histVars, patchVars, reconVars, msgVars, mainVars>>

\* git apply --check passed: git apply, git add <filenames>, git commit -m msg
bb_apply ==
  /\ pc = "bb_check"
  /\ ops' = ops \o <<Popen("apply", <<"--check", "--verbose">>, patch, 0),
                     Popen("apply", <<>>, patch, 0),
                     Git("add", Filenames(num)), Git("commit", <<"-m">>)>>
  /\ commits' = [commits EXCEPT ![active] =
                   Append(@, BackportMsg(num, title, SanitizeB(get_pull_request[num].body)))]
  /\ pc' = "bb_restore"
  /\ UNCHANGED <<active, tracking, behind, cpHead, unmerged, abbrev, argv, runs, exit, idx,
                 called, results, num, current_branch, status, seenHead, call, ret, stderr,
                 histVars, patchVars, reconVars, msgVars, mainVars>>

\* if branch != current_branch: repo.git.checkout(current_branch); return 0
bb_restore ==
  /\ pc = "bb_restore"
  /\ IF branch # current_branch
       THEN /\ ops' = Append(ops, Git("checkout", <<current_branch>>))
            /\ active' = current_branch
       ELSE UNCHANGED <<ops, active>>
  /\ ReturnB(0)
  /\ UNCHANGED <<tracking, behind, commits, cpHead, unmerged, abbrev, argv, runs, idx, called,
                 num, current_branch, status, seenHead, stderr, histVars, patchVars, reconVars, msgVars, mainVars>>

(***************************************************************************)
(* The commit description of the two strategies                            *)
(***************************************************************************)
MaxBody == 3

\* the characters a pull request body is made of here
BodyChars == {"@", "#", "_", " ", "a"}

Bodies == SeqsUpTo(BodyChars, MaxBody)

MsgIdle == body = <<>> /\ desc = <<>> /\ dpc = "idle"

\* a pull request with any body
MsgInit == body \in Bodies /\ desc = <<>> /\ dpc = "start"

\* ghpro: description = pr['body']; description.replace('@', ' ').replace('#', ' ')
describe_a ==
  /\ dpc = "start"
  /\ desc' = SanitizeA(body)
  /\ dpc' = "A"
  /\ UNCHANGED <<body, repoVars, procVars, frameVars, histVars, reconVars, patchVars, mainVars>>

\* ghtools: description = pr['body']; description.replace('@', '_')
describe_b ==
  /\ dpc = "start"
  /\ desc' = SanitizeB(body)
  /\ dpc' = "B"
  /\ UNCHANGED <<body, repoVars, procVars, frameVars, histVars, reconVars, patchVars, mainVars>>

(***************************************************************************)
(* The front-ends: main of ghpro and of ghtools, subcommand apply          *)
(***************************************************************************)
\* path = '.'
Path == "."

\* an argument value: a str or an int
StrArg(text) == [kind |-> "str", str |-> text, int |-> 0]
IntArg(n) == [kind |-> "int", str |-> "", int |-> n]

\* the attributes of the Namespace parse_args returns, by subcommand
Attrs(action) ==
  IF action = "apply" THEN {"action", "project", "branch", "pulls"}
  ELSE {"action", "project", "milestone", "branch", "since"}

\* the project of a remote's url
ProjectOf(remote) == IF remote = "upstream" THEN "ipython/ipython" ELSE "me/ipython"

\* guess_project(path): the project of upstream, else of origin; "" stands for
\* the IndexError of remotes[0]
guess_project ==
  IF "upstream" \in remotes THEN ProjectOf("upstream")
  ELSE IF "origin" \in remotes THEN ProjectOf("origin")
  ELSE ""

\* the command lines `[--project P] apply BRANCH PR [PR ...]`
ApplyOpts ==
  [action : {"apply"}, project : {"", "jupyter/notebook"}, branch : Branches, pulls : Queues]

MainIdle ==
  /\ frontend = "ghpro"
  /\ opts = [action |-> "apply", project |-> "", branch |-> "master", pulls |-> <<123>>]
  /\ remotes = {"origin"}
  /\ mpc = "idle"
  /\ resolved = [branch |-> "", project |-> ""]
  /\ calls = <<>>

MainInit ==
  /\ frontend \in {"ghpro", "ghtools"}
  /\ opts \in ApplyOpts
  /\ remotes \in SUBSET {"upstream", "origin"}
  /\ mpc = "parse"
  /\ resolved = [branch |-> "", project |-> ""]
  /\ calls = <<>>

\* opts.milestone is read: by ghtools always (milestone = opts.milestone), by
\* ghpro when opts.branch is empty
ReadsMilestone == frontend = "ghtools" \/ opts.branch = ""

\* backport_pr(path, branch, pr, project) in ghpro, backport_pr(path, project,
\* branch, pr) in ghtools: the positional arguments by the parameter they are bound to
CallArgs(pr) ==
  IF frontend = "ghpro"
    THEN [path |-> StrArg(Path), branch |-> StrArg(resolved.branch), num |-> IntArg(pr),
          project |-> StrArg(resolved.project)]
    ELSE [path |-> StrArg(Path), branch |-> StrArg(resolved.project), num |-> StrArg(resolved.branch),
          project |-> IntArg(pr)]

\* from path = '.' to the project: the locals branch and project are set, or
\* an AttributeError (no opts.milestone) or IndexError (no remote) ends main
main_resolve ==
  /\ mpc = "parse"
  /\ IF ReadsMilestone /\ "milestone" \notin Attrs(opts.action)
       THEN mpc' = "raised" /\ UNCHANGED resolved
       ELSE LET project == IF opts.project # "" THEN opts.project ELSE guess_project
            IN  IF project = ""
                  THEN mpc' = "raised" /\ UNCHANGED resolved
                  ELSE /\ resolved' = [branch |-> opts.branch, project |-> project]
                       /\ mpc' = "loop"
  /\ UNCHANGED <<frontend, opts, remotes, calls>>
  /\ UNCHANGED <<repoVars, procVars, frameVars, histVars, reconVars, patchVars, msgVars>>

\* for pr in opts.pulls: if backport_pr(...): sys.exit(...)
main_apply ==
  /\ mpc = "loop"
  /\ Len(calls) < Len(opts.pulls)
  /\ calls' = Append(calls, CallArgs(opts.pulls[Len(calls) + 1]))
  /\ \E returned \in {0, 1} :
       mpc' = IF returned # 0 THEN "failed"
              ELSE IF Len(calls) + 1 = Len(opts.pulls) THEN "done" ELSE "loop"
  /\ UNCHANGED <<frontend, opts, remotes, resolved>>
  /\ UNCHANGED <<repoVars, procVars, frameVars, histVars, reconVars, patchVars, msgVars>>

(***************************************************************************)
(* Specifications                                                          *)
(***************************************************************************)
vars == <<repoVars, procVars, frameVars, histVars, reconVars, patchVars, msgVars, mainVars>>

\* `apply BRANCH PR [PR ...]` with Strategy A, run and re-run by the operator
Init == ApplyInit /\ ReconIdle /\ PatchIdle /\ MsgIdle /\ MainIdle

Next ==
  \/ Run
  \/ OperatorStage
  \/ main_call
  \/ main_done
  \/ main_failed
  \/ main_next
  \/ bp_begin_same
  \/ bp_begin_checkout
  \/ bp_pull
  \/ bp_nopull
  \/ bp_inspect_mismatch
  \/ bp_inspect
  \/ bp_cherry_pick
  \/ bp_cherry_pick_failed
  \/ bp_amend
  \/ bp_restore

Spec == Init /\ [][Next]_vars

\* Strategy B called on a repository with no cherry-pick in progress
InitB ==
  /\ ApplyInit
  /\ cpHead = NoSha
  /\ abbrev = 7
  /\ argv.pulls = <<123>>
  /\ ReconIdle
  /\ files \in [PatchNames -> {NoFile, Edited}]
  /\ patch = NoFile
  /\ file0 = NoFile
  /\ MsgIdle
  /\ MainIdle

NextB ==
  \/ bb_call
  \/ OperatorEdit
  \/ bb_begin_same
  \/ bb_begin_checkout
  \/ bb_pull
  \/ bb_read_patch
  \/ bb_download
  \/ bb_check_failed
  \/ bb_apply
  \/ bb_restore

SpecB == InitB /\ [][NextB]_vars

\* no `apply` is run
ApplyIdle ==
  /\ active = "master"
  /\ tracking = [b \in Branches |-> FALSE]
  /\ behind = [b \in Branches |-> FALSE]
  /\ commits = [b \in Branches |-> << <<"base">> >>]
  /\ cpHead = NoSha
  /\ unmerged = FALSE
  /\ abbrev = 7
  /\ argv = [branch |-> "master", pulls |-> <<123>>]
  /\ runs = 0
  /\ pc = "idle"
  /\ exit = [kind |-> "none", pr |-> 0]
  /\ idx = 1
  /\ called = <<>>
  /\ results = <<>>
  /\ num = 123
  /\ current_branch = "master"
  /\ status = <<>>
  /\ seenHead = NoSha
  /\ call = "none"
  /\ ret = 0
  /\ ops = <<>>
  /\ stderr = <<>>
  /\ len0 = 1
  /\ pulled = 0
  /\ lastFail = NoFail
  /\ resuming = FALSE

\* `todo --milestone M`
InitT == ApplyIdle /\ PatchIdle /\ ReconInit /\ MsgIdle /\ MainIdle

NextT == tobackport

SpecT == InitT /\ [][NextT]_vars

\* the description of a commit message, made from any body
InitD == ApplyIdle /\ PatchIdle /\ ReconIdle /\ MsgInit /\ MainIdle

NextD == describe_a \/ describe_b

SpecD == InitD /\ [][NextD]_vars

\* `apply BRANCH PR [PR ...]` given to the main of either module
InitM == ApplyIdle /\ PatchIdle /\ ReconIdle /\ MsgIdle /\ MainInit

NextM == main_resolve \/ main_apply

SpecM == InitM /\ [][NextM]_vars

TypeOK ==
  /\ active \in Branches
  /\ cpHead \in Shas \cup {NoSha}
  /\ unmerged => cpHead # NoSha
  /\ call \in {"none", "active", "returned", "raised"}
  /\ ret \in {0, 1}
  /\ runs \in 0..MaxRuns

(***************************************************************************)
(* Properties of Strategy A and of the apply loop                          *)
(***************************************************************************)
IsWrite(o) == o.cmd \in {"checkout", "pull", "cherry_pick", "commit"}

\* the state-changing git commands of the current call, in order
Writes == SelectSeq(ops, IsWrite)

IsCherryPick(o) == o.cmd = "cherry_pick"

CherryPicks == SelectSeq(ops, IsCherryPick)

Issued(o) == \E i \in 1..Len(ops) : ops[i] = o

Returned(value) == call = "returned" /\ ret = value

\* the call began on another branch than the target
Switched == call \in {"returned", "raised"} /\ current_branch # branch

PullIfTracking == IF tracking[branch] THEN <<Git("pull", <<>>)>> ELSE <<>>

\* the command sequence of a call that switched branches, up to the amend
SwitchedSuccessOps ==
  <<Git("checkout", <<branch>>)>> \o PullIfTracking
    \o <<Git("cherry_pick", CherryPickArgs(status, sha)), Git("commit", <<"--amend", "-m">>)>>

\* the status the call read showed a pick in progress whose abbreviated hash
\* does not start with the first 6 characters of the requested merge commit
SawOtherPick ==
  /\ status # <<>>
  /\ seenHead # NoSha
  /\ Slice(Slice(Chars(seenHead), abbrev), 6) # Slice(Chars(sha), 6)

\* the status the call read showed a pick in progress of the requested hash
SawSamePick ==
  /\ status # <<>>
  /\ seenHead # NoSha
  /\ Slice(Slice(Chars(seenHead), abbrev), 6) = Slice(Chars(sha), 6)

\* the status the call read showed no pick in progress
SawNoPick == status # <<>> /\ seenHead = NoSha

\* C1 as claimed: a call that began on another branch issues checkout(target),
\* pull if tracking, cherry-pick, amend, checkout(original) in this order;
\* checkout(original) is its last command both when it succeeds and when it
\* returns early on a mismatching pick in progress, and is not issued after a
\* cherry-pick failure
C1_RestoresOnMismatch ==
  /\ (Switched /\ Returned(0)) =>
       Writes = SwitchedSuccessOps \o <<Git("checkout", <<current_branch>>)>>
  /\ (Switched /\ Returned(1) /\ SawOtherPick) =>
       /\ Writes[Len(Writes)] = Git("checkout", <<current_branch>>)
       /\ active = current_branch
  /\ (Switched /\ Returned(1) /\ ~SawOtherPick) =>
       /\ ~Issued(Git("checkout", <<current_branch>>))
       /\ active = branch

\* C1 amended: a call that began on another branch issues checkout(target),
\* pull if tracking, cherry-pick, amend, checkout(original) in this order when
\* it succeeds; when it returns 1, on a mismatching pick in progress as on a
\* cherry-pick failure, checkout(original) is not issued and the target branch
\* stays active
C1_RestoresOnSuccessOnly ==
  /\ (Switched /\ Returned(0)) =>
       /\ Writes = SwitchedSuccessOps \o <<Git("checkout", <<current_branch>>)>>
       /\ active = current_branch
  /\ (Switched /\ Returned(1)) =>
       /\ ~Issued(Git("checkout", <<current_branch>>))
       /\ active = branch
       /\ Writes[1] = Git("checkout", <<branch>>)
       /\ \E k \in 1..3 : Writes = SubSeq(SwitchedSuccessOps, 1, k)

\* a call that switched to the target and returned early on a mismatch
C1_Witness == Switched /\ Returned(1) /\ SawOtherPick

\* a call that switched to the target and succeeded
C1_WitnessSuccess == Switched /\ Returned(0) /\ tracking[branch]

\* C2: when the status shows a cherry-pick in progress whose abbreviated hash
\* differs from the first 6 characters of the requested merge commit,
\* backport_pr returns 1 and issues no cherry-pick (--continue or fresh) and
\* no commit
C2_MismatchRefused ==
  (call \in {"active", "returned"} /\ SawOtherPick) =>
    /\ Returned(1)
    /\ \A i \in 1..Len(ops) : ops[i].cmd \notin {"cherry_pick", "commit"}
    /\ cpHead = seenHead
    /\ commits[branch] = SubSeq(commits[branch], 1, len0 + pulled)

\* a call returned on a mismatching pick whose resolutions were staged
C2_Witness == Returned(1) /\ SawOtherPick /\ ~unmerged

\* C3: when the status shows a pick in progress of the requested hash, the
\* call issues cherry-pick --continue and no fresh cherry-pick; when it shows
\* none, the call issues cherry-pick -m 1 <sha> and no --continue
C3_ContinueOrFresh ==
  (call \in {"active", "returned"} /\ status # <<>> /\ pc # "bp_cherry_pick") =>
    /\ SawSamePick => CherryPicks = <<Git("cherry_pick", <<"--continue">>)>>
    /\ SawNoPick => CherryPicks = <<Git("cherry_pick", <<"-m", "1", sha>>)>>

\* a call that continued the pick in progress, and made the commit
C3_Witness == SawSamePick /\ pc = "bp_amend"

\* a call that started a fresh pick
C3_WitnessFresh == SawNoPick /\ pc = "bp_amend"

\* the call repeats the one that failed on a conflict, after the operator
\* staged the resolutions, and has ended
ResumeEnded == resuming /\ call \in {"returned", "raised"}

\* C4: a call that repeats a call failed on a conflict, after the operator
\* staged the resolutions, continues the pick, amends the message and
\* returns 0, whether or not the target branch tracks an upstream
C4_ResumeSucceeds ==
  ResumeEnded =>
    /\ Returned(0)
    /\ Issued(Git("cherry_pick", <<"--continue">>))
    /\ Issued(Git("commit", <<"--amend", "-m">>))

\* C5: when the cherry-pick command fails, backport_pr returns 1 and the
\* failed cherry-pick is its last state-changing command: no abort, commit or
\* checkout follows, and the pick stays in progress on the target branch
C5_NothingAfterFailure ==
  (Returned(1) /\ CherryPicks # <<>>) =>
    /\ Writes[Len(Writes)].cmd = "cherry_pick"
    /\ Len(CherryPicks) = 1
    /\ cpHead # NoSha
    /\ active = branch
    /\ commits[branch] = SubSeq(commits[branch], 1, len0 + pulled)

\* a fresh cherry-pick hit a conflict in a call that had switched branches
C5_Witness == Returned(1) /\ CherryPicks # <<>> /\ SawNoPick /\ current_branch # branch

\* a --continue failed on unmerged paths
C5_WitnessContinue == Returned(1) /\ CherryPicks # <<>> /\ SawSamePick

\* the expected message of the backport commit of pull request n
ExpectedMsg(n) ==
  <<"Backport PR #">> \o FormatInt(n) \o <<": ", get_pull_request[n].title, "\n\n">>
    \o SanitizeA(get_pull_request[n].body)

\* C6: backport_pr is called on the queued numbers in the given order, one
\* at a time; after the first call that returns failure none is called, and
\* the process ends with a failure naming that pull request; the commits of
\* the earlier pull requests stay; the process ends with success only if
\* every queued pull request returned 0
C6_QueueStopsAtFirstFailure ==
  /\ called = SubSeq(argv.pulls, 1, Len(called))
  /\ Len(results) \in {Len(called), Len(called) - 1}
  /\ \A i \in 1..(Len(results) - 1) : results[i] = 0
  /\ exit.kind = "ok" => (Len(results) = Len(argv.pulls) /\ \A i \in 1..Len(results) : results[i] = 0)
  /\ exit.kind = "failed" =>
       /\ results[Len(results)] = 1
       /\ Len(results) = Len(called)
       /\ exit.pr = called[Len(called)]
       /\ \A i \in 1..(Len(called) - 1) :
            \E k \in 1..Len(commits[branch]) : commits[branch][k] = ExpectedMsg(called[i])
  /\ (results # <<>> /\ results[Len(results)] = 1) => pc \in {"main_check", "idle"}

\* the second pull request of a queue failed after the first was committed
C6_Witness == exit.kind = "failed" /\ Len(called) = 2

\* C7: a call that returns 0 has added exactly one commit to the target branch
\* (beyond what its pull brought), with the message "Backport PR #<number>:
\* <title>" + blank line + sanitized body; a call that returns 1 has added none
C7_OneCommitPerSuccess ==
  /\ Returned(0) =>
       /\ Len(commits[branch]) = len0 + pulled + 1
       /\ commits[branch][Len(commits[branch])] = ExpectedMsg(num)
  /\ Returned(1) =>
       /\ Len(commits[branch]) = len0 + pulled
       /\ \A k \in (len0 + 1)..Len(commits[branch]) : commits[branch][k] # ExpectedMsg(num)

\* a resumed pick was committed on a branch that already had a second commit
C7_Witness == Returned(0) /\ SawSamePick /\ len0 > 1

\* a fresh pick was committed after the call's pull had brought a commit
C7_WitnessFresh == Returned(0) /\ SawNoPick /\ pulled = 1

(***************************************************************************)
(* Properties of the reconciler                                            *)
(***************************************************************************)
\* the place of a milestone title in release order
Rank(t) ==
  CASE t = <<"1", ".", "9">> -> 1
    [] t = <<"1", ".", "1", "0">> -> 2
    [] t = <<"2", ".", "0">> -> 3

\* the numbers moved from shouldnt into ok
Moved == ok \cap shouldnt

\* C8: todo = should - already, ok contains already /\ should, and every number
\* moved from shouldnt (= already - should) into ok has a milestone whose
\* version is strictly less than the target milestone's
C8_Reconciled ==
  tpc = "done" =>
    /\ todo = should \ already
    /\ shouldnt = already \ should
    /\ (already \cap should) \subseteq ok
    /\ \A n \in Moved : answers[n] # NoMilestone /\ Rank(answers[n]) < Rank(milestone)

\* a run that moved a number into ok and left one to do
C8_Witness == tpc = "done" /\ Moved # {} /\ todo # {}

\* the lines of out that are equal to line
Count(line) == Cardinality({i \in 1..Len(out) : out[i] = line})

\* C9: if already = should, tobackport prints the up-to-date message, todo is
\* empty and the "should be backported" section is not printed
C9_UpToDate ==
  (tpc = "done" /\ already = should) =>
    /\ todo = {}
    /\ out # <<>>
    /\ out[Len(out)] = UpToDate
    /\ Count(UpToDate) = 1
    /\ Count(TodoHeader) = 0

\* a run with the same, non-empty, already and should
C9_Witness == tpc = "done" /\ already = should /\ already # {}

(***************************************************************************)
(* Properties of Strategy B                                                *)
(***************************************************************************)
\* the patch file of the call existed when the call began
HadFile == call # "none" /\ file0 # NoFile

\* in every state of a call that found its patch file: nothing is downloaded,
\* and the patch, once obtained, is the file's content
ReadsExistingFile ==
  HadFile =>
    /\ \A i \in 1..Len(ops) : ops[i].cmd # "requests.get"
    /\ patch \in {NoFile, file0}
    /\ pc \in {"bb_check", "bb_restore"} => patch = file0

\* a step of the tool leaves every existing patch file as it is, and creates
\* one only for its own pull request, on a failed check, with the patch
KeepsExistingFile ==
  pc # "idle" =>
    \A f \in PatchNames :
      /\ files[f] # NoFile => files'[f] = files[f]
      /\ files'[f] # files[f] =>
           f = Fname(num) /\ pc = "bb_check" /\ ret' = 1 /\ files'[f] = patch

\* C10: the tool never writes an existing PR<number>.patch (a failed check
\* saves the patch only if there is no such file), and when that file exists
\* as a call begins the patch is read from it and nothing is downloaded
C10_PatchFileKept == []ReadsExistingFile /\ [][KeepsExistingFile]_vars

\* a check failed on a patch read from an existing file
C10_Witness == HadFile /\ call = "returned" /\ ret = 1 /\ patch = Edited

\* a check failed on a downloaded patch, which was saved
C10_WitnessSaved ==
  call = "returned" /\ ret = 1 /\ file0 = NoFile /\ files[Fname(num)] = patch /\ patch # NoFile

(***************************************************************************)
(* Properties of already_backported                                        *)
(***************************************************************************)
\* the lists of lines the log text is made of
LogLineLists == {ls \in SeqsUpTo(LogLines, MaxLogLines) : Join(ls) = log}

HasKeyword(line) == \E i \in 1..Len(line) : IsKeyword(line[i])

\* C11: a log line "<hash> Merge pull request #55 from ..." puts 55 in the
\* set already_backported returns, and lines with neither a "backport" nor a
\* "merge" keyword put no number in it: every number of the set is written
\* in a line that has a keyword
C11_KeywordLinesOnly ==
  tpc = "done" =>
    \A ls \in LogLineLists :
      /\ (\E i \in 1..Len(ls) : ls[i] = MergeLine) => 55 \in already
      /\ (\A i \in 1..Len(ls) : ~HasKeyword(ls[i])) => already = {}
      /\ \A n \in already :
           \E i \in 1..Len(ls) : HasKeyword(ls[i]) /\ Contains(FormatInt(n), ls[i])

\* a log of a keyword line without number, then a line without keyword
C11_WitnessBarrier ==
  tpc = "done" /\ log = Join(<<<<"f", " ", "Merge", " ", "x">>, PlainLine>>) /\ already = {}

\* a log of the merge line and of a line without keyword
C11_Witness == tpc = "done" /\ log = Join(<<MergeLine, PlainLine>>) /\ already = {55}

(***************************************************************************)
(* Properties of the commit description                                    *)
(***************************************************************************)
Has(c, s) == \E i \in 1..Len(s) : s[i] = c

\* C12: Strategy A's description has no "@" and no "#": each is a space, every
\* other character and the length are those of the body; Strategy B's has no
\* "@": each is a "_", every other character, "#" included, is the body's
C12_Sanitized ==
  /\ dpc = "A" =>
       /\ ~Has("@", desc) /\ ~Has("#", desc)
       /\ Len(desc) = Len(body)
       /\ \A i \in 1..Len(body) :
            IF body[i] \in {"@", "#"} THEN desc[i] = " " ELSE desc[i] = body[i]
  /\ dpc = "B" =>
       /\ ~Has("@", desc)
       /\ Len(desc) = Len(body)
       /\ \A i \in 1..Len(body) :
            IF body[i] = "@" THEN desc[i] = "_" ELSE desc[i] = body[i]

\* Strategy A on a body with both characters and another one
C12_Witness == dpc = "A" /\ body = <<"@", "a", "#">> /\ desc = <<" ", "a", " ">>

\* Strategy B on the same body
C12_WitnessB == dpc = "B" /\ body = <<"@", "a", "#">> /\ desc = <<"_", "a", "#">>

(***************************************************************************)
(* Properties of Strategy A's pull step                                    *)
(***************************************************************************)
IsPull(o) == o.cmd = "pull"

IsInspection(o) == o.cmd \in {"get_pull_request", "status"}

\* the position the tracking reference is looked up at: after the checkout, if any
LookupAt == IF current_branch # branch THEN 2 ELSE 1

\* the commands of a call around the lookup of the upstream
PullStepOrder ==
  /\ \A k \in 1..Len(ops) :
       (IsPull(ops[k]) \/ IsInspection(ops[k])) => \E j \in 1..(k - 1) : ops[j].cmd = "for_each_ref"
  /\ \A k \in 1..Len(ops) :
       ops[k].cmd = "for_each_ref" =>
         /\ k = LookupAt
         /\ k = 2 => ops[1] = Git("checkout", <<branch>>)
         /\ \A j \in 1..Len(ops) : IsPull(ops[j]) => (j = k + 1 /\ tracking[branch])
         /\ tracking[branch] =>
              /\ Len(ops) > k /\ IsPull(ops[k + 1])
              /\ \A j \in 1..Len(ops) : IsInspection(ops[j]) => j > k + 1
         /\ ~tracking[branch] =>
              /\ Len(SelectSeq(ops, IsPull)) = 0
              /\ stderr # <<>> /\ stderr[1] = "not tracking upstream"
              /\ call # "raised"
              /\ pc \notin {"bp_begin", "bp_pull"}
              /\ \A j \in 1..Len(ops) : IsInspection(ops[j]) => j > k

\* C13: in every call of Strategy A the upstream of the target branch is looked
\* up right after the optional checkout; a pull follows it if and only if the
\* branch tracks an upstream, and the metadata fetch and the status come only
\* after that; without an upstream the warning is printed, nothing is pulled
\* and the call goes on to the metadata fetch and the cherry-pick steps
C13_PullIffTracking ==
  /\ []PullStepOrder
  /\ [][pc = "bp_pull" /\ ~tracking[branch] => pc' = "bp_inspect"]_vars

\* a call on a branch without upstream switched branches, warned, did not pull
\* and went on to a cherry-pick
C13_Witness ==
  /\ ~tracking[branch] /\ current_branch # branch
  /\ Len(CherryPicks) = 1 /\ Len(SelectSeq(ops, IsPull)) = 0
  /\ stderr # <<>> /\ stderr[1] = "not tracking upstream"

\* a call on a tracking branch pulled after its checkout and went on
C13_WitnessPull ==
  /\ tracking[branch] /\ current_branch # branch
  /\ Len(ops) >= 4 /\ IsPull(ops[3]) /\ IsInspection(ops[4])

(***************************************************************************)
(* Properties of Strategy B's apply step                                   *)
(***************************************************************************)
IsDryRun(o) == o.cmd = "apply" /\ o.args = <<"--check", "--verbose">>

IsApply(o) == o.cmd = "apply" /\ o.args = <<>>

IsChange(o) == IsApply(o) \/ o.cmd \in {"add", "commit"}

\* the commands of the call from its dry run on
FromDryRun ==
  LET at == {k \in 1..Len(ops) : IsDryRun(ops[k])}
  IN  IF at = {} THEN <<>> ELSE SubSeq(ops, CHOOSE k \in at : TRUE, Len(ops))

\* the apply, the add and the commit come, in this order, right after a dry
\* run that returned 0 on the bytes the apply is fed
AppliedAfterCheck ==
  \A k \in 1..Len(ops) :
    IsChange(ops[k]) =>
      /\ Len(FromDryRun) >= 4
      /\ FromDryRun[1].returncode = 0
      /\ IsApply(FromDryRun[2]) /\ FromDryRun[2].stdin = FromDryRun[1].stdin
      /\ FromDryRun[1].stdin = patch /\ patch # NoFile
      /\ FromDryRun[3] = Git("add", Filenames(num))
      /\ FromDryRun[4] = Git("commit", <<"-m">>)
      /\ k \in (Len(ops) - Len(FromDryRun) + 2)..(Len(ops) - Len(FromDryRun) + 4)

\* a call returns 1 on a failed dry run, having changed nothing
FailedCheckChangesNothing ==
  Returned(1) =>
    /\ \E k \in 1..Len(ops) : IsDryRun(ops[k]) /\ ops[k].returncode # 0
    /\ \A k \in 1..Len(ops) : ~IsChange(ops[k])
    /\ Len(commits[branch]) = len0 + pulled

\* a call that returns 0 has made one new commit and is back on the branch it began on
SuccessCommitsAndRestores ==
  Returned(0) =>
    /\ Len(FromDryRun) = (IF current_branch # branch THEN 5 ELSE 4)
    /\ current_branch # branch => ops[Len(ops)] = Git("checkout", <<current_branch>>)
    /\ active = current_branch
    /\ Len(commits[branch]) = len0 + pulled + 1
    /\ commits[branch][Len(commits[branch])]
         = BackportMsg(num, title, SanitizeB(get_pull_request[num].body))

\* C14: Strategy B applies the patch, stages and commits only after the dry
\* run of the same patch bytes succeeded; a failed dry run returns 1 with no
\* apply, no add and no commit; a success stages exactly the files of the
\* pull request's changed-file list, makes one new commit without --amend and
\* checks the original branch out again if the call had left it
C14_ApplyOnlyAfterCheck ==
  AppliedAfterCheck /\ FailedCheckChangesNothing /\ SuccessCommitsAndRestores

\* a call that had switched branches applied a patch read from an edited file
C14_Witness == Returned(0) /\ current_branch # branch /\ patch = Edited /\ num = 123

\* a call returned 1 on a failed dry run
C14_WitnessFailed == Returned(1) /\ current_branch # branch

(***************************************************************************)
(* Properties of should_backport                                           *)
(***************************************************************************)
IssueAt(n) == CHOOSE issue \in {issues[i] : i \in 1..Len(issues)} : issue.number = n

Listed == {issues[i].number : i \in 1..Len(issues)}

\* C15: should_backport returns exactly the numbers of the closed issues of the
\* milestone that are pull requests whose detail says merged; each pull request
\* closed without merge is warned about, is left out, and the issues after it
\* are still processed; an issue that is no pull request is left out and its
\* pull request detail is never fetched
C15_MergedPullRequests ==
  tpc = "done" =>
    /\ should \subseteq Listed
    /\ \A n \in Listed :
         /\ n \in should <=> (is_pull_request(IssueAt(n)) /\ IssueAt(n).merged)
         /\ (is_pull_request(IssueAt(n)) /\ ~IssueAt(n).merged)
              <=> (\E k \in 1..Len(out) : out[k] = ClosedWithoutMerge(n))
         /\ is_pull_request(IssueAt(n)) <=> (\E k \in 1..Len(fetched) : fetched[k] = n)

\* a pull request closed without merge came before a merged one, which is
\* returned all the same
C15_Witness ==
  /\ tpc = "done" /\ Len(issues) = 2
  /\ is_pull_request(issues[1]) /\ ~issues[1].merged
  /\ issues[2].merged /\ should = {issues[2].number}
  /\ out[1] = ClosedWithoutMerge(issues[1].number)

\* a plain issue was skipped without a fetch, before a merged pull request
C15_WitnessPlain ==
  /\ tpc = "done" /\ Len(issues) = 2
  /\ ~is_pull_request(issues[1]) /\ issues[2].merged
  /\ fetched = <<issues[2].number>> /\ should = {issues[2].number}

(***************************************************************************)
(* Properties of the milestone test                                        *)
(***************************************************************************)
\* the pull request's milestone is an earlier release than the target
Earlier(n) == answers[n] # NoMilestone /\ Rank(answers[n]) < Rank(milestone)

\* the lines of the section of out that begins with header
SectionOf(header) ==
  LET at == {k \in 1..Len(out) : out[k] = header}
      IsHeader(k) == out[k] \in {SuspectHeader, OkHeader, TodoHeader, UpToDate}
  IN  IF at = {} THEN {}
      ELSE LET k == CHOOSE i \in at : TRUE
           IN  {out[j] : j \in {i \in (k + 1)..Len(out) : \A m \in (k + 1)..i : ~IsHeader(m)}}

\* C16: a number backported but not requested (in already - should) is moved
\* into ok if and only if its pull request has a milestone whose version is
\* strictly before the target's, components compared as numbers (1.9 before
\* 1.10); with no milestone, or a milestone equal to or after the target, it
\* stays in still_shouldnt and is printed in that section
C16_MovedIffEarlier ==
  tpc = "done" =>
    \A n \in already \ should :
      /\ n \in ok <=> Earlier(n)
      /\ (\E k \in 1..Len(still_shouldnt) : still_shouldnt[k] = n) <=> ~Earlier(n)
      /\ ~Earlier(n) => FormatInt(n) \in SectionOf(SuspectHeader)
      /\ Earlier(n) => FormatInt(n) \in SectionOf(OkHeader) \ SectionOf(SuspectHeader)

\* target 1.10: a pull request of milestone 1.9 was moved into ok
C16_Witness ==
  /\ tpc = "done" /\ milestone = <<"1", ".", "1", "0">>
  /\ \E n \in shouldnt : answers[n] = <<"1", ".", "9">> /\ n \in ok

\* a pull request of the target's own milestone and one without milestone stayed
C16_WitnessStays ==
  /\ tpc = "done" /\ Len(still_shouldnt) = 2
  /\ \E n, m \in shouldnt : answers[n] = milestone /\ answers[m] = NoMilestone

(***************************************************************************)
(* Properties of the report                                                *)
(***************************************************************************)
\* the places of a line in out
At(line) == {k \in 1..Len(out) : out[k] = line}

Headers == {SuspectHeader, OkHeader, TodoHeader, UpToDate}

\* the lines that follow the header at place k, up to the next header
LinesAfter(k) ==
  LET ends == {j \in (k + 1)..Len(out) : out[j] \in Headers}
      last == IF ends = {} THEN Len(out) ELSE (CHOOSE j \in ends : \A m \in ends : j <= m) - 1
  IN  SubSeq(out, k + 1, last)

\* the lines are the numbers of S, each once, in ascending order
AscendingOf(lines, S) ==
  /\ {ParseInt(lines[i]) : i \in 1..Len(lines)} = S
  /\ \A i \in 1..(Len(lines) - 1) : ParseInt(lines[i]) < ParseInt(lines[i + 1])

\* C17: the report of tobackport comes in this order: the section of the
\* numbers that perhaps should not have been backported, only if there are
\* any; the section of the ok numbers, ascending, only if there are any; then
\* either the section of the todo numbers, ascending, or, when there are none,
\* the up-to-date line; exactly one of these two is printed in every run, it
\* is last, and no section is printed twice
C17_ReportOrder ==
  tpc = "done" =>
    /\ \A h \in Headers : Cardinality(At(h)) <= 1
    /\ At(SuspectHeader) # {} <=> still_shouldnt # <<>>
    /\ At(OkHeader) # {} <=> ok # {}
    /\ At(TodoHeader) # {} <=> todo # {}
    /\ At(UpToDate) # {} <=> todo = {}
    /\ \A i \in At(SuspectHeader), j \in At(OkHeader) \cup At(TodoHeader) \cup At(UpToDate) : i < j
    /\ \A i \in At(OkHeader), j \in At(TodoHeader) \cup At(UpToDate) : i < j
    /\ \A k \in At(SuspectHeader) :
         {ParseInt(LinesAfter(k)[i]) : i \in 1..Len(LinesAfter(k))} = already \ (should \cup ok)
    /\ \A k \in At(OkHeader) : AscendingOf(LinesAfter(k), ok)
    /\ \A k \in At(TodoHeader) : AscendingOf(LinesAfter(k), todo) /\ k + Cardinality(todo) = Len(out)
    /\ \A k \in At(UpToDate) : k = Len(out)

\* all three sections were printed
C17_Witness ==
  /\ tpc = "done" /\ still_shouldnt # <<>> /\ ok # {} /\ todo # {}
  /\ Len(out) = 6

\* two numbers were printed in the todo section
C17_WitnessTodo == tpc = "done" /\ Cardinality(todo) = 2 /\ At(TodoHeader) # {}

\* a run with nothing to do printed the ok section and the up-to-date line
C17_WitnessUpToDate == tpc = "done" /\ Cardinality(ok) = 2 /\ todo = {} /\ At(UpToDate) # {}

(***************************************************************************)
(* The groups of the report                                                *)
(***************************************************************************)
StillSet == {still_shouldnt[k] : k \in 1..Len(still_shouldnt)}

\* C18: whatever the log, the issues and the milestones are, in both variants
\* the groups todo, ok and still_shouldnt are pairwise disjoint and together
\* make up should \cup already, and every such number is printed exactly once
C18_Partition ==
  tpc = "done" =>
    /\ todo \cap ok = {} /\ todo \cap StillSet = {} /\ ok \cap StillSet = {}
    /\ todo \cup ok \cup StillSet = should \cup already
    /\ Len(still_shouldnt) = Cardinality(StillSet)
    /\ \A n \in should \cup already : Count(FormatInt(n)) = 1
    /\ \A n \in IssueNums \ (should \cup already) : Count(FormatInt(n)) = 0

\* ghtools: the three groups are non-empty and one number was moved into ok
C18_Witness ==
  /\ tpc = "done" /\ variant = "ghtools"
  /\ todo # {} /\ still_shouldnt # <<>> /\ Moved # {}

\* ghpro: the three groups are non-empty
C18_WitnessGhpro ==
  tpc = "done" /\ variant = "ghpro" /\ todo # {} /\ still_shouldnt # <<>> /\ ok # {}

(***************************************************************************)
(* The digits already_backported takes                                     *)
(***************************************************************************)
\* the digits of n stand in the log as a whole run: no digit before, none after
MaximalRun(n) ==
  LET d == FormatInt(n)
  IN  \E p \in 1..Len(log) :
        /\ p + Len(d) - 1 <= Len(log)
        /\ SubSeq(log, p, p + Len(d) - 1) = d
        /\ p > 1 => ~IsDigit(log[p - 1])
        /\ p + Len(d) <= Len(log) => ~IsDigit(log[p + Len(d)])

\* C19: every integer ghpro's already_backported extracts is a whole, maximal
\* run of digits of the log text, never the beginning of a longer number, also
\* when the number ends the last line of the log
C19_MaximalRuns ==
  (tpc = "done" /\ variant = "ghpro") => \A n \in already : MaximalRun(n)

(***************************************************************************)
(* Properties of the front-ends                                            *)
(***************************************************************************)
\* the project main resolves: --project, else the guess
ResolvedProject == IF opts.project # "" THEN opts.project ELSE guess_project

\* C20: in both front-ends `apply BRANCH PR [PR ...]`, once the project is
\* resolved, calls backport_pr once for each requested pull request, in
\* order, until one fails, with the path bound to path, the branch of the
\* command line to branch, the pull request number to num and the resolved
\* project to project
C20_ApplierBinding ==
  ResolvedProject # "" =>
    /\ mpc # "raised"
    /\ mpc = "done" => Len(calls) = Len(opts.pulls)
    /\ mpc = "failed" => calls # <<>>
    /\ \A i \in 1..Len(calls) :
         calls[i] = [path |-> StrArg(Path), branch |-> StrArg(opts.branch),
                     num |-> IntArg(opts.pulls[i]), project |-> StrArg(ResolvedProject)]

====
